---- MODULE Spec2Model ----
(***************************************************************************)
(* meet_bot: the periodic sync-and-notify pipeline.                        *)
(*                                                                         *)
(*   Reconciler  app/tasks/scheduler.py  sync_google_events                *)
(*   Dispatcher  app/tasks/scheduler.py  process_notifications             *)
(*   Scheduler   app/tasks/scheduler.py  create_scheduler                  *)
(*   Debug       app/debug.py            run_sync                          *)
(*   Snooze/Ack  app/bot/handlers.py     on_snooze, on_ack                 *)
(*                                                                         *)
(* Time is counted in minutes.  The store is a READ COMMITTED relational   *)
(* database: `meetings` and `notifs` hold the committed rows, every open   *)
(* session holds its own uncommitted writes, and a query sees the          *)
(* committed rows plus the session's own writes.  Every coroutine yields   *)
(* at its awaits; an action is the code between two such points.           *)
(***************************************************************************)
EXTENDS Integers, Sequences, FiniteSets, TLC

VARIABLES
    now,        \* the wall clock, datetime.now(timezone.utc)
    tg_id,      \* users.tg_id, per account (NULL: no messaging identity)
    calendar,   \* what the calendar provider holds, per account
    meetings,   \* committed rows of table meetings, by id
    notifs,     \* committed rows of table notifications, by id
    rec,        \* the reconcile runs: one of the scheduler, one of /debug/sync
    disp,       \* the dispatch pass of the scheduler
    credited,   \* ids whose sent_at was set and not cleared by a snooze since
    synced,     \* a reconcile run has committed to its end
    ticks,      \* clock advances so far
    snoozes,    \* snooze callbacks so far
    debugs,     \* POST /debug/sync requests so far
    acks,       \* acknowledge callbacks so far
    buttons,    \* ids of the reminders delivered to a chat, with their buttons
    edits,      \* changes made in the provider's calendars so far
    conv,       \* the conversational layer: the draft cache and the edit context
    fake        \* a call of FakeCalendarProvider.get_events: arguments and result

vars == <<now, tg_id, calendar, meetings, notifs, rec, disp, credited, synced,
          ticks, snoozes, debugs, acks, buttons, edits, conv, fake>>

-----------------------------------------------------------------------------
(* Bounds of the model *)

MaxTicks == 2
MaxSnoozes == 2
MaxDebugRuns == 1
MaxAcks == 1
MaxEdits == 1
MaxDrafts == 1

-----------------------------------------------------------------------------
(* Program constants *)

NULL == -1
DayOffset == 1440
HourOffset == 60
WindowDays == 14
LookbackDays == 1
BatchLimit == 20
SnoozeButtonMinutes == 15
FakeFirstStartMinutes == 5
FakeFirstEndMinutes == 20
FakeSecondStartHours == 1
FakeSecondEndHours == 2
TestWindowHours == 10

Users == {1, 2}
Runners == {"sched", "debug"}

-----------------------------------------------------------------------------
(* Rows and sessions *)

\* A UnifiedEvent; every event of the model starts with the same location
\* and description.
Event(id, title, start_at, end_at) ==
    [id |-> id, title |-> title, start_at |-> start_at, end_at |-> end_at,
     location |-> "room", description |-> "agenda"]

IdsOf(rows) == {x.id : x \in rows}

\* The chat users who talk to the bot, by their messenger id: the first is
\* the one account 1 is linked to (tg_id of Init), the other has no account.
LinkedChatter == 101
Chatters == {LinkedChatter, 109}

\* What a handler answered last, to whom and about which token.
NoReply == [who |-> 0, handler |-> "none", tok |-> 0, text |-> "none"]

\* handlers.py: _MEETING_PROPOSALS (token -> draft, here the set of the
\* drafts with their tokens) and _EDIT_CONTEXT (per chat user: empty or the
\* token and the field being edited).  `inflight` holds the drafts
\* on_confirm_meeting has popped and not yet sent to the provider, `created`
\* what it has inserted in the provider's calendar, and when; `made` counts
\* the tokens drawn so far; `before` is the cache as the last cancel found it.
IdleConv ==
    [drafts |-> {}, ctx |-> [w \in Chatters |-> <<>>], created |-> {},
     made |-> 0, inflight |-> {}, reply |-> NoReply, before |-> {}]

\* No call of the fake provider yet: the window asked for, the clock at the
\* call and the list returned.
IdleFake == [time_min |-> 0, time_max |-> 0, clock |-> 0, result |-> <<>>,
             called |-> FALSE]

\* An autoincrement id: the only property used is that it is fresh, so the
\* least id no committed or pending row holds is taken.
FreshId(used) ==
    CHOOSE i \in 1..(Cardinality(used) + 1) :
        i \notin used /\ \A j \in 1..(i - 1) : j \in used

\* A session of sync_google_events: its position and its uncommitted writes.
\*   mIns  meetings added and flushed      nIns  notifications added
\*   mUpd  [old, new] per loaded meeting whose attributes were set
\* and, for the record of the account at hand: newM, newN (the rows the
\* run inserted for it) and updM (the [old, new] of its meetings it changed).
\* `outcome` tells how the run before ended; after a failure the record keeps
\* the account at hand and the rows the run had inserted for it.  `seen`
\* counts the events the providers have returned to the run so far.
IdleRec ==
    [pc |-> "idle", runNow |-> 0, todo |-> {}, user |-> 0, events |-> <<>>,
     mIns |-> {}, mUpd |-> {}, nIns |-> {}, newM |-> {}, newN |-> {}, updM |-> {},
     outcome |-> "none", seen |-> 0]

\* An update that would leave location and description as they are.
ApplyUpdTimesOnly(cur, u) ==
    [cur EXCEPT !.title = u.new.title, !.start_at = u.new.start_at,
                !.end_at = u.new.end_at]

\* The UPDATE the unit of work emits for a loaded meeting: only the columns
\* whose value differs from the loaded one.
ApplyUpd(cur, u) ==
    [cur EXCEPT !.title = IF u.new.title # u.old.title THEN u.new.title ELSE @,
                !.start_at = IF u.new.start_at # u.old.start_at THEN u.new.start_at ELSE @,
                !.end_at = IF u.new.end_at # u.old.end_at THEN u.new.end_at ELSE @,
                !.location = IF u.new.location # u.old.location THEN u.new.location ELSE @,
                !.description = IF u.new.description # u.old.description
                                THEN u.new.description ELSE @]

Updated(s, m) ==
    IF \E u \in s.mUpd : u.old.id = m.id
    THEN ApplyUpd(m, CHOOSE u \in s.mUpd : u.old.id = m.id)
    ELSE m

\* What a query of session s sees: committed rows, with its own writes.
VisibleMeetings(s) == {Updated(s, m) : m \in meetings} \cup s.mIns
VisibleNotifs(s) == notifs \cup s.nIns

UsedMeetingIds == IdsOf(meetings) \cup UNION {IdsOf(rec[r].mIns) : r \in Runners}
UsedNotifIds == IdsOf(notifs) \cup UNION {IdsOf(rec[r].nIns) : r \in Runners}

-----------------------------------------------------------------------------
(* Reconciler: scheduler.py *)

\* A WHERE clause that compares the event id with the title of the row.
MeetingKeyMatchTitle(m, user, event_id) ==
    m.user_id = user /\ m.title = event_id

\* The WHERE clause of _upsert_meeting.
MeetingKeyMatch(m, user, event_id) ==
    m.user_id = user /\ m.external_id = event_id

\* _upsert_meeting: scalar_one_or_none raises on two matching rows.
upsert_meeting(s, user, e) ==
    LET found == {m \in VisibleMeetings(s) : MeetingKeyMatch(m, user, e.id)}
    IN  IF Cardinality(found) > 1
        THEN [raised |-> TRUE, ses |-> s, mid |-> NULL]
        ELSE IF found = {}
        THEN LET row == [id |-> FreshId(UsedMeetingIds \cup IdsOf(s.mIns)),
                         user_id |-> user, external_id |-> e.id,
                         title |-> e.title, start_at |-> e.start_at,
                         end_at |-> e.end_at, location |-> e.location,
                         description |-> e.description]
             IN  [raised |-> FALSE, mid |-> row.id,
                  ses |-> [s EXCEPT !.mIns = @ \cup {row}, !.newM = @ \cup {row}]]
        ELSE LET m == CHOOSE x \in found : TRUE
                 new == [m EXCEPT !.title = e.title, !.start_at = e.start_at,
                                  !.end_at = e.end_at, !.location = e.location,
                                  !.description = e.description]
             IN  [raised |-> FALSE, mid |-> m.id,
                  ses |->
                    IF new = m THEN s
                    ELSE IF m \in s.mIns
                    THEN [s EXCEPT !.mIns = (@ \ {m}) \cup {new}]
                    ELSE [s EXCEPT !.mUpd = @ \cup {[old |-> m, new |-> new]},
                                   !.updM = @ \cup {[old |-> m, new |-> new]}]]

\* A WHERE clause that compares the wrong column: Notification.id in place
\* of Notification.meeting_id.
NotificationKeyMatchWrongColumn(n, meeting_id, scheduled_at) ==
    n.id = meeting_id /\ n.scheduled_at = scheduled_at

\* The WHERE clause of _ensure_notification.
NotificationKeyMatch(n, meeting_id, scheduled_at) ==
    n.meeting_id = meeting_id /\ n.scheduled_at = scheduled_at

\* An _ensure_notification without its first two lines (the check of the
\* fire time against the clock).
ensure_notification_any_time(s, meeting_id, user_id, scheduled_at, clock) ==
    IF \E n \in notifs \cup s.nIns : n.meeting_id = meeting_id /\ n.scheduled_at = scheduled_at
    THEN [raised |-> FALSE, ses |-> s]
    ELSE LET row == [id |-> CHOOSE i \in 1..(Cardinality(notifs \cup s.nIns) + 1) :
                                i \notin {x.id : x \in notifs \cup s.nIns},
                     user_id |-> user_id, meeting_id |-> meeting_id,
                     scheduled_at |-> scheduled_at, sent_at |-> NULL,
                     status |-> "none"]
         IN  [raised |-> FALSE,
              ses |-> [s EXCEPT !.nIns = @ \cup {row}, !.newN = @ \cup {row}]]

\* _ensure_notification at clock time `clock`.
ensure_notification(s, meeting_id, user_id, scheduled_at, clock) ==
    LET existing == {n \in VisibleNotifs(s) :
                        NotificationKeyMatch(n, meeting_id, scheduled_at)}
    IN  IF scheduled_at <= clock
        THEN [raised |-> FALSE, ses |-> s]
        ELSE IF Cardinality(existing) > 1
        THEN [raised |-> TRUE, ses |-> s]
        ELSE IF existing # {}
        THEN [raised |-> FALSE, ses |-> s]
        ELSE LET row == [id |-> FreshId(UsedNotifIds \cup IdsOf(s.nIns)),
                         user_id |-> user_id, meeting_id |-> meeting_id,
                         scheduled_at |-> scheduled_at, sent_at |-> NULL,
                         status |-> "none"]
             IN  [raised |-> FALSE,
                  ses |-> [s EXCEPT !.nIns = @ \cup {row}, !.newN = @ \cup {row}]]

\* A commit that would lose the notifications of the session.
CommittedNotifsDropped(s) == notifs

\* A commit that would delete the meetings whose event the provider holds
\* no more.
CommittedMeetingsPruned(s) ==
    {Updated(s, m) : m \in {x \in meetings :
                              \E k \in 1..Len(calendar[x.user_id]) :
                                  calendar[x.user_id][k].id = x.external_id}}
        \cup s.mIns

\* A commit that would write every notification back as pending.
CommittedNotifsReset(s) == {[n EXCEPT !.sent_at = NULL] : n \in notifs} \cup s.nIns

\* session.commit(): the session's writes become the committed rows.
CommittedMeetings(s) == {Updated(s, m) : m \in meetings} \cup s.mIns
CommittedNotifs(s) == notifs \cup s.nIns
Flushed(s) == [s EXCEPT !.mIns = {}, !.mUpd = {}, !.nIns = {}]

\* A scheduler that would not fire a job again after it raised.
RunFailedForGood(s, why) == [s EXCEPT !.pc = "dead", !.outcome = why]

\* An exception leaves `async with session_factory()`: the session is
\* closed, its uncommitted writes are rolled back and the run is over.
RunFailed(s, why) ==
    [IdleRec EXCEPT !.user = s.user, !.newM = s.newM, !.newN = s.newN,
                    !.outcome = why]

\* GoogleCalendarProvider.get_events, the events().list call: the events of
\* the account that overlap the window (end after timeMin, start before
\* timeMax), in start order as the calendar holds them.
InWindow(e, time_min, time_max) == e.end_at > time_min /\ e.start_at < time_max

RECURSIVE Filter(_, _, _)
Filter(events, time_min, time_max) ==
    IF events = <<>> THEN <<>>
    ELSE (IF InWindow(Head(events), time_min, time_max) THEN <<Head(events)>> ELSE <<>>)
         \o Filter(Tail(events), time_min, time_max)

\* _parse_google_datetime raises ValueError for an event without start or end.
Parseable(events) ==
    \A i \in 1..Len(events) : events[i].start_at # NULL /\ events[i].end_at # NULL

\* sync_google_events starts: the window and the accounts with a google token
\* (every account of the model has one).  The query states no order; the
\* rows come back in id order, the order of the table.
RecStart(r) ==
    /\ rec[r].pc = "idle"
    /\ r = "debug" => debugs < MaxDebugRuns
    /\ debugs' = IF r = "debug" THEN debugs + 1 ELSE debugs
    /\ rec' = [rec EXCEPT ![r] = [IdleRec EXCEPT !.pc = "users", !.runNow = now,
                                                  !.todo = Users]]
    /\ UNCHANGED <<now, tg_id, calendar, meetings, notifs, disp, credited, synced,
                   ticks, snoozes, acks, buttons, edits, conv, fake>>

\* The session after get_events refreshed the token: google.py commits the
\* session it was given, with whatever the run has written so far.  Whether
\* the credentials count as expired is left open (`refreshed` in RecFetch).
AfterRefresh(s) == Flushed(s)

\* The loop takes the next account and calls provider.get_events.  The token
\* may be refreshed (then the provider commits the session), and the fetch
\* may fail (network, credentials) or an item may not parse: the exception
\* is not caught in sync_google_events.
NextUser(todo) == CHOOSE x \in todo : \A y \in todo : x <= y

RecFetch(r) ==
    /\ rec[r].pc = "users"
    /\ rec[r].todo # {}
    /\ \E refreshed \in BOOLEAN, fetched \in BOOLEAN :
        LET u == NextUser(rec[r].todo)
            s0 == [rec[r] EXCEPT !.user = u, !.todo = @ \ {u},
                                 !.newM = {}, !.newN = {}, !.updM = {}]
            s == IF refreshed THEN AfterRefresh(s0) ELSE s0
            time_min == s.runNow - LookbackDays * DayOffset
            time_max == s.runNow + WindowDays * DayOffset
            items == Filter(calendar[u], time_min, time_max)
        IN  /\ meetings' = IF refreshed THEN CommittedMeetings(s0) ELSE meetings
            /\ notifs' = IF refreshed THEN CommittedNotifs(s0) ELSE notifs
            /\ rec' = [rec EXCEPT ![r] =
                        IF ~fetched THEN RunFailed(s, "fetch")
                        ELSE IF ~Parseable(items) THEN RunFailed(s, "parse")
                        ELSE IF items = <<>> THEN s
                        ELSE [s EXCEPT !.pc = "events", !.events = items,
                                       !.seen = @ + Len(items)]]
    /\ UNCHANGED <<now, tg_id, calendar, disp, credited, synced, ticks,
                   snoozes, debugs, acks, buttons, edits, conv, fake>>

\* One turn of `for e in events`: the upsert and the two reminders.
RecEvent(r) ==
    /\ rec[r].pc = "events"
    /\ LET s == rec[r]
           e == Head(s.events)
           up == upsert_meeting(s, s.user, e)
           n1 == IF up.raised THEN up
                 ELSE ensure_notification(up.ses, up.mid, s.user, e.start_at - DayOffset, now)
           n2 == IF n1.raised THEN n1
                 ELSE ensure_notification(n1.ses, up.mid, s.user, e.start_at - HourOffset, now)
       IN  rec' = [rec EXCEPT ![r] =
                    IF n2.raised THEN RunFailed(s, "query")
                    ELSE IF Len(s.events) = 1
                    THEN [n2.ses EXCEPT !.events = <<>>, !.pc = "users"]
                    ELSE [n2.ses EXCEPT !.events = Tail(s.events)]]
    /\ UNCHANGED <<now, tg_id, calendar, meetings, notifs, disp, credited, synced,
                   ticks, snoozes, debugs, acks, buttons, edits, conv, fake>>

\* The final session.commit() after the last account.
RecCommit(r) ==
    /\ rec[r].pc = "users"
    /\ rec[r].todo = {}
    /\ meetings' = CommittedMeetings(rec[r])
    /\ notifs' = CommittedNotifs(rec[r])
    /\ rec' = [rec EXCEPT ![r] = [IdleRec EXCEPT !.outcome = "commit"]]
    /\ synced' = TRUE
    /\ UNCHANGED <<now, tg_id, calendar, disp, credited, ticks, snoozes,
                   debugs, acks, buttons, edits, conv, fake>>

\* A handler that would commit what the session holds before it gives up.
RecStoreErrorCommits(r) ==
    /\ rec[r].pc = "events"
    /\ meetings' = {Updated(rec[r], m) : m \in meetings} \cup rec[r].mIns
    /\ notifs' = notifs \cup rec[r].nIns
    /\ rec' = [rec EXCEPT ![r] = [@ EXCEPT !.pc = "idle", !.outcome = "store"]]
    /\ UNCHANGED <<now, tg_id, calendar, disp, credited, synced,
                   ticks, snoozes, debugs, acks, buttons, edits, conv, fake>>

\* A store operation of the run raises (StoreError) while an account is
\* being processed: the session is rolled back.
RecStoreError(r) ==
    /\ rec[r].pc = "events"
    /\ rec' = [rec EXCEPT ![r] = RunFailed(rec[r], "store")]
    /\ UNCHANGED <<now, tg_id, calendar, meetings, notifs, disp, credited, synced,
                   ticks, snoozes, debugs, acks, buttons, edits, conv, fake>>

-----------------------------------------------------------------------------
(* Dispatcher: scheduler.py process_notifications *)

\* A query without `sent_at IS NULL`.
DueIgnoringSent(n, t) ==
    /\ n.scheduled_at # NULL
    /\ n.scheduled_at <= t
    /\ n.user_id \in Users
    /\ \E m \in meetings : m.id = n.meeting_id

\* A query that would take only the reminders that fit the start of their
\* meeting as it is now.
DueCurrentOnly(n, t) ==
    /\ n.scheduled_at # NULL
    /\ n.scheduled_at <= t
    /\ n.sent_at = NULL
    /\ n.user_id \in Users
    /\ \E m \in meetings :
          /\ m.id = n.meeting_id
          /\ n.scheduled_at \in {m.start_at - DayOffset, m.start_at - HourOffset}

\* A query with an outer join in place of the inner join with Meeting.
DueOuterJoin(n, t) ==
    /\ n.scheduled_at # NULL
    /\ n.scheduled_at <= t
    /\ n.sent_at = NULL
    /\ n.user_id \in Users

\* The WHERE clause and the joins of the query: due, unsent, with an
\* account and a meeting to join.
Due(n, t) ==
    /\ n.scheduled_at # NULL
    /\ n.scheduled_at <= t
    /\ n.sent_at = NULL
    /\ n.user_id \in Users
    /\ \E m \in meetings : m.id = n.meeting_id

\* ORDER BY scheduled_at ASC LIMIT k: every sequence the store may return
\* (rows with equal scheduled_at come in any order).
RECURSIVE Batches(_, _)
Batches(rows, k) ==
    IF rows = {} \/ k = 0 THEN {<<>>}
    ELSE UNION {{<<x.id>> \o rest : rest \in Batches(rows \ {x}, k - 1)} :
                x \in {y \in rows : \A z \in rows : y.scheduled_at <= z.scheduled_at}}

\* A query with ORDER BY scheduled_at DESC.
SelectionReversed(t) ==
    {[i \in 1..Len(q) |-> q[Len(q) + 1 - i]] :
        q \in Batches({n \in notifs : Due(n, t)}, BatchLimit)}

\* A query without LIMIT.
SelectionNoLimit(t) ==
    Batches({n \in notifs : Due(n, t)}, Cardinality({n \in notifs : Due(n, t)}))

Selection(t) == Batches({n \in notifs : Due(n, t)}, BatchLimit)

\* A pass in progress: the rows of the query, the position in them, the ids
\* whose send succeeded (sent_at set in the session) and those whose send
\* raised.  `starts` holds, row by row, the start of the Meeting the query
\* joined: the message of the row shows it.  `last` tells how the pass
\* before ended.
IdleDisp == [pc |-> "idle", now |-> 0, rows |-> <<>>, i |-> 1, ok |-> {}, failed |-> {},
             last |-> "none", starts |-> <<>>]

\* Meeting.start_at of the row the query joins to notification `id`; NULL
\* where there is none to show ("?" in the message).
JoinedStart(id) ==
    LET n == CHOOSE x \in notifs : x.id = id
    IN  IF \E m \in meetings : m.id = n.meeting_id
        THEN (CHOOSE m \in meetings : m.id = n.meeting_id).start_at
        ELSE NULL

\* The scheduler fires job "notify": APScheduler runs at most one instance
\* of a job (max_instances is left at 1), so a firing during a pass is
\* skipped.  No rows: the pass returns at once.
DispatchStart ==
    /\ disp.pc = "idle"
    /\ \E rows \in Selection(now) :
        disp' = IF rows = <<>> THEN [IdleDisp EXCEPT !.last = "empty"]
                ELSE [IdleDisp EXCEPT !.pc = "loop", !.now = now, !.rows = rows,
                        !.starts = [k \in 1..Len(rows) |-> JoinedStart(rows[k])]]
    /\ UNCHANGED <<now, tg_id, calendar, meetings, notifs, rec, credited, synced,
                   ticks, snoozes, debugs, acks, buttons, edits, conv, fake>>

\* An except clause that would leave the loop (`break`).
AfterSendFailureBreak(d, id) ==
    [d EXCEPT !.i = Len(d.rows) + 1, !.failed = @ \cup {id}]

\* The pass after bot.send_message raised for the row at hand: `continue`.
AfterSendFailure(d, id) == [d EXCEPT !.i = @ + 1, !.failed = @ \cup {id}]

\* The pass after a send that succeeded: notif.sent_at = now, in the session.
AfterSendSuccess(d, id) == [d EXCEPT !.i = @ + 1, !.ok = @ \cup {id}]

\* A check of tg_id that would leave the loop (`break`).
AfterSkipBreak(d) == [d EXCEPT !.i = Len(d.rows) + 1]

\* The pass after `if user.tg_id is None: continue`.
AfterSkip(d) == [d EXCEPT !.i = @ + 1]

\* One turn of `for notif, user, meeting in rows`; `delivered` is what the
\* channel does with the message, when one is sent.
DispatchItem(delivered) ==
    /\ disp.pc = "loop"
    /\ disp.i <= Len(disp.rows)
    /\ LET id == disp.rows[disp.i]
           n == CHOOSE x \in notifs : x.id = id
       IN  IF tg_id[n.user_id] = NULL
           THEN /\ disp' = AfterSkip(disp)
                /\ buttons' = buttons
           ELSE /\ disp' = IF delivered THEN AfterSendSuccess(disp, id)
                           ELSE AfterSendFailure(disp, id)
                /\ buttons' = IF delivered THEN buttons \cup {id} ELSE buttons
    /\ UNCHANGED <<now, tg_id, calendar, meetings, notifs, rec, credited, synced,
                   ticks, snoozes, debugs, acks, edits, conv, fake>>

\* An UPDATE without its WHERE clause.
MarkSentAll(rows, ids, t) == {[n EXCEPT !.sent_at = t] : n \in rows}

\* An UPDATE that would set the status of the rows as well.
MarkSentAndClose(rows, ids, t) ==
    {IF n.id \in ids THEN [n EXCEPT !.sent_at = t, !.status = "sent"] ELSE n : n \in rows}

\* The UPDATE of the batch commit: sent_at of the rows the pass marked.
MarkSent(rows, ids, t) ==
    {IF n.id \in ids THEN [n EXCEPT !.sent_at = t] ELSE n : n \in rows}

\* session.commit() after the loop.
DispatchCommit ==
    /\ disp.pc = "loop"
    /\ disp.i > Len(disp.rows)
    /\ notifs' = MarkSent(notifs, disp.ok, disp.now)
    /\ credited' = credited \cup disp.ok
    /\ disp' = [IdleDisp EXCEPT !.last = "commit"]
    /\ UNCHANGED <<now, tg_id, calendar, meetings, rec, synced, ticks, snoozes,
                   debugs, acks, buttons, edits, conv, fake>>

\* The pass dies before its commit (the process stops, the commit raises):
\* the session is rolled back.
DispatchAbort ==
    /\ disp.pc = "loop"
    /\ disp' = [IdleDisp EXCEPT !.last = "abort"]
    /\ UNCHANGED <<now, tg_id, calendar, meetings, notifs, rec, credited, synced,
                   ticks, snoozes, debugs, acks, buttons, edits, conv, fake>>

-----------------------------------------------------------------------------
(* Snooze and acknowledge: handlers.py *)

\* on_snooze for "snooze:<id>:<minutes>": the row moves by `minutes` and
\* is pending again.  An id that matches no row changes nothing.
Snoozed(n, minutes) ==
    [n EXCEPT !.scheduled_at = @ + minutes, !.sent_at = NULL]

Snooze(id, minutes) ==
    /\ snoozes < MaxSnoozes
    /\ snoozes' = snoozes + 1
    /\ notifs' = {IF n.id = id THEN Snoozed(n, minutes) ELSE n : n \in notifs}
    /\ credited' = credited \ {id}
    /\ UNCHANGED <<now, tg_id, calendar, meetings, rec, disp, synced, ticks,
                   debugs, acks, buttons, edits, conv, fake>>

\* An on_ack that would set the status and leave sent_at alone.
AckedStatusOnly(n, t) == [n EXCEPT !.status = "ack"]

\* on_ack for "ack:<id>".
Acked(n, t) ==
    [n EXCEPT !.status = "ack", !.sent_at = IF @ = NULL THEN t ELSE @]

Ack(id) ==
    /\ acks < MaxAcks
    /\ acks' = acks + 1
    /\ notifs' = {IF n.id = id THEN Acked(n, now) ELSE n : n \in notifs}
    /\ credited' = IF id \in IdsOf(notifs) THEN credited \cup {id} ELSE credited
    /\ UNCHANGED <<now, tg_id, calendar, meetings, rec, disp, synced, ticks,
                   snoozes, debugs, buttons, edits, conv, fake>>

-----------------------------------------------------------------------------
(* Drafts of meetings: handlers.py *)

\* zoneinfo "Europe/Moscow", the timezone of every draft of the model: three
\* hours ahead of UTC, four before the clocks went back for the last time,
\* at the wall time DstEndLocal.  A wall time in the repeated hour counts
\* as the first of the two (fold = 0).
MskOffset == 180
MsdOffset == 240
DstEndLocal == 0 - 8 * DayOffset
UtcOffset(local) == IF local < DstEndLocal THEN MsdOffset ELSE MskOffset

\* dt_local.astimezone(timezone.utc)
ToUtc(local) == local - UtcOffset(local)

\* datetime.max: arithmetic beyond it raises OverflowError.
MaxTime == 40 * DayOffset

\* Start times (wall time) a text may name: within the sync window of every
\* run of the model, a day beyond it, half an hour before the clocks went
\* back, and a quarter of an hour before the last time there is.
NearStart == HourOffset + 30
FarStart == (WindowDays + 1) * DayOffset
DraftStarts ==
    {NearStart + MskOffset, FarStart + MskOffset, DstEndLocal - 30, MaxTime - 15}

\* on_edit_text, field "dur": `if mins not in (15, 30, 45, 60)`.
EditableDurations == {15, 30, 45, 60}

\* What suggest_meetings_from_transcript may return for a meeting: a
\* start_local that strptime accepts or not, and a duration_min (0 stands
\* for a missing one).  The extractor applies int() itself, so the value
\* is an integer; the model asks for 15/30/45/60 but nothing checks it.
ExtractorItems ==
    [start_ok : BOOLEAN, start : DraftStarts, duration_min : {0, 30, 90}]

\* What the user may type while a field is being edited: a text that parses
\* (as a date, a time, a number; for a title: is not empty) or not, and the
\* value it parses to (for a date or a time: the start it gives with the
\* other part of start_local).
TypedValues ==
    [parses : BOOLEAN, start : DraftStarts, minutes : {15, 20}]

\* secrets.token_urlsafe(6): a token no draft has had.
FreshToken == conv.made + 1

\* The token of the button "cancel": callback data "mkmeet_cancel:all".
AllToken == 0

Draft(tok, owner, start_local, duration_min) ==
    [tok |-> tok, tg_user_id |-> owner, title |-> "meet",
     start_local |-> start_local, start_utc |-> ToUtc(start_local),
     duration_min |-> duration_min,
     end_utc |-> ToUtc(start_local + duration_min)]

Reply(who, handler, tok, text) ==
    [who |-> who, handler |-> handler, tok |-> tok, text |-> text]

\* on_create_meeting for a transcript with one meeting in it: the duration
\* is taken as it comes, 30 when missing; a start that does not parse, or
\* an end beyond the last time, is skipped (`continue`).
on_create_meeting(who, m) ==
    /\ conv.made < MaxDrafts
    /\ LET duration_min == IF m.duration_min = 0 THEN 30 ELSE m.duration_min
           stored == m.start_ok /\ m.start + duration_min <= MaxTime
       IN  conv' = [conv EXCEPT
                     !.made = @ + 1,
                     !.drafts = IF stored
                                THEN @ \cup {Draft(FreshToken, who, m.start, duration_min)}
                                ELSE @,
                     !.reply = Reply(who, "on_create_meeting", FreshToken,
                                     IF stored THEN "preview" ELSE "unparsed")]
    /\ UNCHANGED <<now, tg_id, calendar, meetings, notifs, rec, disp, credited,
                   synced, ticks, snoozes, debugs, acks, buttons, edits, fake>>

\* on_create_from_keyboard: a draft that starts now (wall time) and lasts
\* 30 minutes.
on_create_from_keyboard(who) ==
    /\ conv.made < MaxDrafts
    /\ conv' = [conv EXCEPT
                  !.made = @ + 1,
                  !.drafts = @ \cup {Draft(FreshToken, who, now + MskOffset, 30)},
                  !.reply = Reply(who, "on_create_from_keyboard", FreshToken, "preview")]
    /\ UNCHANGED <<now, tg_id, calendar, meetings, notifs, rec, disp, credited,
                   synced, ticks, snoozes, debugs, acks, buttons, edits, fake>>

\* A cancel of "all" that would drop only the drafts of the user who asks.
CancelledOwn(drafts, who, tok) ==
    IF tok = AllToken THEN {d \in drafts : d.tg_user_id # who}
    ELSE {d \in drafts : d.tok # tok}

\* The draft cache after on_cancel_meeting: clear() for "all", pop(tok)
\* otherwise.
Cancelled(drafts, who, tok) ==
    IF tok = AllToken THEN {} ELSE {d \in drafts : d.tok # tok}

on_cancel_meeting(who, tok) ==
    /\ conv' = [conv EXCEPT !.drafts = Cancelled(@, who, tok),
                            !.before = conv.drafts,
                            !.reply = Reply(who, "on_cancel_meeting", tok, "cancelled")]
    /\ UNCHANGED <<now, tg_id, calendar, meetings, notifs, rec, disp, credited,
                   synced, ticks, snoozes, debugs, acks, buttons, edits, fake>>

\* on_edit_title, on_edit_date, on_edit_time, on_edit_dur: the button of a
\* draft sets the edit context of the user.
EditFields == {"title", "date", "time", "dur"}

on_edit_field(who, tok, field) ==
    /\ conv.ctx[who] # <<[tok |-> tok, field |-> field]>>
    /\ conv' = [conv EXCEPT !.ctx[who] = <<[tok |-> tok, field |-> field]>>]
    /\ UNCHANGED <<now, tg_id, calendar, meetings, notifs, rec, disp, credited,
                   synced, ticks, snoozes, debugs, acks, buttons, edits, fake>>

\* The checks of on_edit_text pass: the text parses and, for a duration, is
\* one of 15/30/45/60.
Accepted(field, val) ==
    /\ val.parses
    /\ field = "dur" => val.minutes \in EditableDurations

\* The try block of on_edit_text, statement by statement: the draft it
\* leaves and whether it raised.  The fields are assigned one after the
\* other, and the computation of end_utc raises when the end lies beyond
\* the last time.
TryEdit(d, field, val) ==
    IF ~Accepted(field, val) THEN [draft |-> d, raised |-> TRUE]
    ELSE IF field = "title"
    THEN [draft |-> [d EXCEPT !.title = "renamed"], raised |-> FALSE]
    ELSE IF field = "dur"
    THEN LET d1 == [d EXCEPT !.duration_min = val.minutes]
         IN  IF d.start_local + val.minutes > MaxTime
             THEN [draft |-> d1, raised |-> TRUE]
             ELSE [draft |-> [d1 EXCEPT !.end_utc = ToUtc(d.start_local + val.minutes)],
                   raised |-> FALSE]
    ELSE LET d1 == [d EXCEPT !.start_local = val.start,
                             !.start_utc = ToUtc(val.start)]
         IN  IF val.start + d.duration_min > MaxTime
             THEN [draft |-> d1, raised |-> TRUE]
             ELSE [draft |-> [d1 EXCEPT !.end_utc = ToUtc(val.start + d.duration_min)],
                   raised |-> FALSE]

\* on_edit_text: a text while a field is being edited.  A context whose
\* draft is gone is dropped.  When the try block raises the user is told
\* what to type and the context stays; otherwise the context is dropped
\* and the card is drawn again.
on_edit_text(who, val) ==
    /\ conv.ctx[who] # <<>>
    /\ LET ctx == conv.ctx[who][1]
           found == {d \in conv.drafts : d.tok = ctx.tok}
           d == CHOOSE x \in found : TRUE
           res == TryEdit(d, ctx.field, val)
       IN  conv' = IF found = {} THEN [conv EXCEPT !.ctx[who] = <<>>]
                   ELSE [conv EXCEPT
                           !.ctx[who] = IF res.raised THEN @ ELSE <<>>,
                           !.drafts = (@ \ {d}) \cup {res.draft},
                           !.reply = Reply(who, "on_edit_text", ctx.tok,
                                           IF res.raised THEN "rejected" ELSE "card")]
    /\ UNCHANGED <<now, tg_id, calendar, meetings, notifs, rec, disp, credited,
                   synced, ticks, snoozes, debugs, acks, buttons, edits, fake>>

\* on_edit_submit, a text "title | date time | minutes" while a field is
\* being edited: the context is popped and then used, a dict, as the key
\* of the draft cache, which raises TypeError; no draft is changed and
\* nothing is answered.
PipeMessages == [start : DraftStarts, minutes : {30}]

on_edit_submit(who, msg) ==
    /\ conv.ctx[who] # <<>>
    /\ conv' = [conv EXCEPT !.ctx[who] = <<>>,
                            !.reply = Reply(who, "on_edit_submit",
                                            conv.ctx[who][1].tok, "raised")]
    /\ UNCHANGED <<now, tg_id, calendar, meetings, notifs, rec, disp, credited,
                   synced, ticks, snoozes, debugs, acks, buttons, edits, fake>>

\* A confirm that would look the draft up and leave it in the cache.
PoppedNot(drafts, d) == drafts

\* _MEETING_PROPOSALS.pop(tok, None)
Popped(drafts, d) == drafts \ {d}

\* on_confirm_meeting up to its first await: the draft is popped; a token
\* without a draft is answered "nothing to confirm".
on_confirm_meeting(who, tok) ==
    /\ LET found == {d \in conv.drafts : d.tok = tok}
           d == CHOOSE x \in found : TRUE
       IN  conv' = IF found = {}
                   THEN [conv EXCEPT !.reply = Reply(who, "on_confirm_meeting", tok,
                                                     "nothing to confirm")]
                   ELSE [conv EXCEPT
                           !.drafts = Popped(@, d),
                           !.inflight = @ \cup {[who |-> who, draft |-> d]},
                           !.reply = Reply(who, "on_confirm_meeting", tok, "popped")]
    /\ UNCHANGED <<now, tg_id, calendar, meetings, notifs, rec, disp, credited,
                   synced, ticks, snoozes, debugs, acks, buttons, edits, fake>>

\* select(User).where(User.tg_id == tg_id)
AccountsOf(who) == {u \in Users : tg_id[u] = who}

\* The event events().insert makes of a draft: the provider gives it an id.
CreatedEvent(d, n) ==
    [id |-> "c" \o ToString(n), title |-> d.title, start_at |-> d.start_utc,
     end_at |-> d.end_utc, location |-> "none", description |-> "voice note"]

\* The rest of on_confirm_meeting: the account of the chat user is looked
\* up (none: the user is told to link a calendar) and the event is
\* inserted in its calendar; no Meeting row is written, the next sync finds
\* the event.  When the call fails the user is told.  The draft is not put
\* back in any of these cases.
on_confirm_meeting_insert(c) ==
    /\ c \in conv.inflight
    /\ \E inserted \in BOOLEAN :
        LET e == CreatedEvent(c.draft, Cardinality(conv.created) + 1)
            linked == AccountsOf(c.who) # {}
            user == CHOOSE u \in AccountsOf(c.who) : TRUE
            done == linked /\ inserted
        IN  /\ conv' = [conv EXCEPT
                          !.inflight = @ \ {c},
                          !.created = IF done
                                      THEN @ \cup {[id |-> e.id, tok |-> c.draft.tok,
                                                    user |-> user, at |-> now,
                                                    event |-> e]}
                                      ELSE @,
                          !.reply = Reply(c.who, "on_confirm_meeting", c.draft.tok,
                                          IF ~linked THEN "not linked"
                                          ELSE IF inserted THEN "created"
                                          ELSE "provider error")]
            /\ calendar' = IF done THEN [calendar EXCEPT ![user] = Append(@, e)]
                           ELSE calendar
    /\ UNCHANGED <<now, tg_id, meetings, notifs, rec, disp, credited,
                   synced, ticks, snoozes, debugs, acks, buttons, edits, fake>>

-----------------------------------------------------------------------------
(* The calendar provider *)

\* The owner moves the first event of a calendar a quarter of an hour later,
\* to another place.
Moved(events) ==
    <<[events[1] EXCEPT !.start_at = @ + 15, !.end_at = @ + 15,
                        !.location = "hall"]>> \o Tail(events)

CalendarEdit(u) ==
    /\ edits < MaxEdits
    /\ calendar[u] # <<>>
    /\ edits' = edits + 1
    /\ calendar' = [calendar EXCEPT ![u] = Moved(@)]
    /\ UNCHANGED <<now, tg_id, meetings, notifs, rec, disp, credited, synced,
                   ticks, snoozes, debugs, acks, buttons, conv, fake>>

\* The owner deletes the first event of a calendar: the provider returns it
\* no more.
CalendarCancel(u) ==
    /\ edits < MaxEdits
    /\ calendar[u] # <<>>
    /\ edits' = edits + 1
    /\ calendar' = [calendar EXCEPT ![u] = Tail(@)]
    /\ UNCHANGED <<now, tg_id, meetings, notifs, rec, disp, credited, synced,
                   ticks, snoozes, debugs, acks, buttons, conv, fake>>

\* The provider starts to return the first event of a calendar without an
\* end time (an item whose "end" holds neither dateTime nor date).
WithoutEnd(events) == <<[events[1] EXCEPT !.end_at = NULL]>> \o Tail(events)

CalendarDropEnd(u) ==
    /\ edits < MaxEdits
    /\ calendar[u] # <<>>
    /\ edits' = edits + 1
    /\ calendar' = [calendar EXCEPT ![u] = WithoutEnd(@)]
    /\ UNCHANGED <<now, tg_id, meetings, notifs, rec, disp, credited, synced,
                   ticks, snoozes, debugs, acks, buttons, conv, fake>>

-----------------------------------------------------------------------------
(* The fake provider: calendar/fake.py *)

\* The fake provider reads the clock and drops the part below a second; its
\* times are counted in half seconds to keep that part.
SubSecond == 2
FakeMinute == 60 * SubSecond
FakeHour == 60 * FakeMinute

\* datetime.now(timezone.utc).replace(microsecond=0)
Truncated(t) == t - (t % SubSecond)

\* The two events the provider makes up at a call.
FakeEvents(clock) ==
    LET base_start == Truncated(clock)
    IN  << [id |-> "evt-1", title |-> "Standup Meeting",
            start_at |-> base_start + FakeFirstStartMinutes * FakeMinute,
            end_at |-> base_start + FakeFirstEndMinutes * FakeMinute,
            location |-> "Online", description |-> "User"],
           [id |-> "evt-2", title |-> "Planning",
            start_at |-> base_start + FakeSecondStartHours * FakeHour,
            end_at |-> base_start + FakeSecondEndHours * FakeHour,
            location |-> "Room 101", description |-> "Quarter planning"] >>

\* An overlap test that would ask for the event to lie inside the window.
FakeOverlapsInside(e, time_min, time_max) ==
    e.start_at >= time_min /\ e.end_at <= time_max

\* overlaps = not (e.end_at <= time_min or e.start_at >= time_max)
FakeOverlaps(e, time_min, time_max) ==
    ~(e.end_at <= time_min \/ e.start_at >= time_max)

fake_get_events(clock, time_min, time_max) ==
    SelectSeq(FakeEvents(clock), LAMBDA e : FakeOverlaps(e, time_min, time_max))

\* A call of FakeCalendarProvider.get_events.
FakeGetEvents ==
    /\ ~fake.called
    /\ fake' = [fake EXCEPT !.called = TRUE,
                            !.result = fake_get_events(fake.clock, fake.time_min,
                                                       fake.time_max)]
    /\ UNCHANGED <<now, tg_id, calendar, meetings, notifs, rec, disp, credited,
                   synced, ticks, snoozes, debugs, acks, buttons, edits, conv>>

\* The arguments of the calls: clock readings on and off a full second, and
\* windows whose ends lie at, just before and just after the starts and
\* ends of the events, among them the window of the repository's test
\* (from the clock reading to ten hours later).
FakeClocks == 1..3
FakeMins ==
    {c + k : c \in {0, FakeFirstEndMinutes * FakeMinute, FakeSecondEndHours * FakeHour},
             k \in 0..3}
FakeMaxs ==
    {c + k : c \in {FakeFirstStartMinutes * FakeMinute, FakeSecondStartHours * FakeHour,
                    TestWindowHours * FakeHour},
             k \in 0..3}

-----------------------------------------------------------------------------
(* The clock *)

\* The clock is looked at every quarter of an hour.
TickMinutes == HourOffset \div 4

Tick ==
    /\ ticks < MaxTicks
    /\ now' = now + TickMinutes
    /\ ticks' = ticks + 1
    /\ UNCHANGED <<tg_id, calendar, meetings, notifs, rec, disp, credited, synced,
                   snoozes, debugs, acks, buttons, edits, conv, fake>>

-----------------------------------------------------------------------------

\* The calendars at the start: account 1 has a meeting a day and a quarter
\* of an hour ahead (reminders due at 15 and at 1395), account 2 one an hour
\* and a quarter ahead (its day-before reminder is already past, the
\* hour-before one is due at 15).
InitialCalendar ==
    [u \in Users |->
        IF u = 1 THEN <<Event("e1", "t1", DayOffset + 15, DayOffset + 45)>>
                 ELSE <<Event("e2", "t2", HourOffset + 15, HourOffset + 45)>>]

Init ==
    /\ now = 0
    /\ tg_id = [u \in Users |-> 100 + u]
    /\ calendar = InitialCalendar
    /\ meetings = {}
    /\ notifs = {}
    /\ rec = [r \in Runners |-> IdleRec]
    /\ disp = IdleDisp
    /\ credited = {}
    /\ synced = FALSE
    /\ ticks = 0
    /\ snoozes = 0
    /\ debugs = 0
    /\ acks = 0
    /\ buttons = {}
    /\ edits = 0
    /\ conv = IdleConv
    /\ fake = IdleFake

\* The ids a callback may carry: the buttons of a delivered reminder carry
\* the id of its row (scheduler.py, callback_data of the keyboard).  The
\* handlers take the keyboard off the message after they have committed; a
\* callback sent before that, or from another delivery of the same row,
\* still arrives, so a delivered id stays in the set.
CallbackIds == buttons

Reconcile(r) ==
    \/ RecStart(r)
    \/ RecFetch(r)
    \/ RecEvent(r)
    \/ RecCommit(r)
    \/ RecStoreError(r)

Dispatch ==
    \/ DispatchStart
    \/ \E delivered \in BOOLEAN : DispatchItem(delivered)
    \/ DispatchCommit
    \/ DispatchAbort

Callbacks ==
    \/ \E id \in CallbackIds : Snooze(id, SnoozeButtonMinutes)
    \/ \E id \in CallbackIds : Ack(id)

\* The program as deployed: the scheduler's two jobs, the callbacks of the
\* messaging channel and the clock; the calendars do not change.
Next ==
    \/ Reconcile("sched")
    \/ Dispatch
    \/ Callbacks
    \/ Tick

Spec == Init /\ [][Next]_vars

\* The text of a callback, by what the handlers make of it: the number
\* of fields between colons, whether the id field and the minutes field are
\* decimal numbers, and the id when it is one.  An id of 0 matches no row.
CallbackDatas ==
    [kind : {"snooze", "ack"}, parts : {2, 3}, id_numeric : BOOLEAN,
     id : CallbackIds \cup {0}, minutes_numeric : BOOLEAN]

\* The try block at the head of the handler: on_snooze unpacks three
\* fields and converts the minutes; on_ack splits once, which cannot fail.
ParametersRejected(cb) ==
    cb.kind = "snooze" /\ (cb.parts # 3 \/ ~cb.minutes_numeric)

\* int(notif_id), outside the try block: on_ack's single split leaves any
\* further colon in the id.
IdRaises(cb) ==
    ~cb.id_numeric \/ (cb.kind = "ack" /\ cb.parts # 2)

\* The calls of on_snooze and on_ack that end before the update: the
\* parameters are rejected with an alert, the conversion of the id raises
\* and the handler dies without an answer, or no row has the id and the
\* user is told so.  No row is written.
CallbackRefused(cb) ==
    /\ ParametersRejected(cb) \/ IdRaises(cb) \/ cb.id \notin IdsOf(notifs)
    /\ conv' = [conv EXCEPT !.reply =
                  Reply(LinkedChatter, "on_" \o cb.kind, 0,
                        IF ParametersRejected(cb) THEN "bad parameters"
                        ELSE IF IdRaises(cb) THEN "raised"
                        ELSE "not found")]
    /\ UNCHANGED <<now, tg_id, calendar, meetings, notifs, rec, disp, credited,
                   synced, ticks, snoozes, debugs, acks, buttons, edits, fake>>

\* The scheduler's jobs and callbacks the handlers refuse.
NextCallback ==
    \/ Reconcile("sched")
    \/ Dispatch
    \/ \E cb \in CallbackDatas : CallbackRefused(cb)
    \/ Tick

SpecCallback == Init /\ [][NextCallback]_vars

\* The tokens a callback may carry: those of the buttons made so far.
Tokens == 1..conv.made

\* The conversation about drafts.
Drafting ==
    \/ \E who \in Chatters, m \in ExtractorItems : on_create_meeting(who, m)
    \/ \E who \in Chatters : on_create_from_keyboard(who)
    \/ \E who \in Chatters, tok \in Tokens \cup {AllToken} : on_cancel_meeting(who, tok)
    \/ \E who \in Chatters, d \in conv.drafts, field \in EditFields :
          on_edit_field(who, d.tok, field)
    \/ \E who \in Chatters, val \in TypedValues : on_edit_text(who, val)
    \/ \E who \in Chatters, msg \in PipeMessages : on_edit_submit(who, msg)
    \/ \E who \in Chatters, tok \in Tokens : on_confirm_meeting(who, tok)
    \/ \E c \in conv.inflight : on_confirm_meeting_insert(c)

\* The users making, editing and confirming drafts, and the clock.
NextDraft ==
    \/ Drafting
    \/ Tick

SpecDraft == Init /\ [][NextDraft]_vars

\* The sync job and the clock, with the linked user confirming the drafts
\* as the extractor made them.
NextConfirm ==
    \/ Reconcile("sched")
    \/ \E m \in ExtractorItems : on_create_meeting(LinkedChatter, m)
    \/ \E d \in conv.drafts : on_confirm_meeting(LinkedChatter, d.tok)
    \/ \E c \in conv.inflight : on_confirm_meeting_insert(c)
    \/ Tick

SpecConfirm == Init /\ [][NextConfirm]_vars

\* Drafts made and confirmed, by any user, any number of times.
NextTokens ==
    \/ \E who \in Chatters, m \in ExtractorItems : on_create_meeting(who, m)
    \/ \E who \in Chatters, tok \in Tokens : on_confirm_meeting(who, tok)
    \/ \E c \in conv.inflight : on_confirm_meeting_insert(c)
    \/ Tick

SpecTokens == Init /\ [][NextTokens]_vars

\* Draft caches a cancel may find: for each of three tokens no draft, a
\* draft of the one user or a draft of the other.
SampleTokens == 1..3
SampleStores ==
    {{Draft(t, owner[t], NearStart + MskOffset, 30) : t \in {x \in SampleTokens : owner[x] # 0}} :
        owner \in [SampleTokens -> Chatters \cup {0}]}

InitCancel ==
    /\ now = 0
    /\ tg_id = [u \in Users |-> 100 + u]
    /\ calendar = InitialCalendar
    /\ meetings = {}
    /\ notifs = {}
    /\ rec = [r \in Runners |-> IdleRec]
    /\ disp = IdleDisp
    /\ credited = {}
    /\ synced = FALSE
    /\ ticks = 0
    /\ snoozes = 0
    /\ debugs = 0
    /\ acks = 0
    /\ buttons = {}
    /\ edits = 0
    /\ conv \in {[IdleConv EXCEPT !.drafts = store, !.made = Cardinality(SampleTokens)] :
                    store \in SampleStores}
    /\ fake = IdleFake

\* A cancel, by any user, of "all" or of a token.
NextCancel ==
    \E who \in Chatters, tok \in Tokens \cup {AllToken} : on_cancel_meeting(who, tok)

SpecCancel == InitCancel /\ [][NextCancel]_vars

\* The two jobs, every send delivered and every pass committed, with the
\* owners moving and deleting events.
NextProvider ==
    \/ Reconcile("sched")
    \/ DispatchStart
    \/ DispatchItem(TRUE)
    \/ DispatchCommit
    \/ \E u \in Users : CalendarEdit(u)
    \/ \E u \in Users : CalendarCancel(u)
    \/ Tick

SpecProvider == Init /\ [][NextProvider]_vars

\* Calls of the fake provider, one per choice of arguments.
InitFake ==
    /\ now = 0
    /\ tg_id = [u \in Users |-> 100 + u]
    /\ calendar = InitialCalendar
    /\ meetings = {}
    /\ notifs = {}
    /\ rec = [r \in Runners |-> IdleRec]
    /\ disp = IdleDisp
    /\ credited = {}
    /\ synced = FALSE
    /\ ticks = 0
    /\ snoozes = 0
    /\ debugs = 0
    /\ acks = 0
    /\ buttons = {}
    /\ edits = 0
    /\ conv = IdleConv
    /\ fake \in [time_min : FakeMins, time_max : FakeMaxs, clock : FakeClocks,
                  result : {<<>>}, called : {FALSE}]

NextFake == FakeGetEvents

SpecFake == InitFake /\ [][NextFake]_vars

\* The same, with the owners editing their calendars.
NextEdit ==
    \/ Reconcile("sched")
    \/ Dispatch
    \/ Callbacks
    \/ \E u \in Users : CalendarEdit(u)
    \/ Tick

SpecEdit == Init /\ [][NextEdit]_vars

\* The scheduler's reconcile job alone, with the clock and the owners
\* editing their calendars.
NextSync ==
    \/ Reconcile("sched")
    \/ \E u \in Users : CalendarEdit(u)
    \/ Tick

\* Account 2 with two meetings, so that a run can fail in the middle of it
\* after the changes of account 1.
InitSync ==
    /\ now = 0
    /\ tg_id = [u \in Users |-> 100 + u]
    /\ calendar = [InitialCalendar EXCEPT
                     ![2] = @ \o <<Event("e3", "t3", HourOffset + 30, HourOffset + 60)>>]
    /\ meetings = {}
    /\ notifs = {}
    /\ rec = [r \in Runners |-> IdleRec]
    /\ disp = IdleDisp
    /\ credited = {}
    /\ synced = FALSE
    /\ ticks = 0
    /\ snoozes = 0
    /\ debugs = 0
    /\ acks = 0
    /\ buttons = {}
    /\ edits = 0
    /\ conv = IdleConv
    /\ fake = IdleFake

SpecSync == InitSync /\ [][NextSync]_vars

\* The two reconcile entry points, the scheduler's job and POST /debug/sync,
\* with the clock and the owners editing their calendars.
NextDebug ==
    \/ \E r \in Runners : Reconcile(r)
    \/ \E u \in Users : CalendarEdit(u)
    \/ Tick

SpecDebug == Init /\ [][NextDebug]_vars

\* A backlog: account 2 has no messaging identity and as many meetings as a
\* batch holds rows, each with its hour-before reminder due within the first
\* half hour; account 1 has one meeting, reminded at 30.  Every send
\* succeeds and no pass aborts.
BacklogCalendar ==
    [u \in Users |->
        IF u = 1 THEN <<Event("e1", "t1", HourOffset + 30, HourOffset + 60)>>
                 ELSE [k \in 1..BatchLimit |->
                          Event("b" \o ToString(k), "t2", HourOffset + k, HourOffset + k + 30)]]

InitBacklog ==
    /\ now = 0
    /\ tg_id = [u \in Users |-> IF u = 1 THEN 101 ELSE NULL]
    /\ calendar = BacklogCalendar
    /\ meetings = {}
    /\ notifs = {}
    /\ rec = [r \in Runners |-> IdleRec]
    /\ disp = IdleDisp
    /\ credited = {}
    /\ synced = FALSE
    /\ ticks = 0
    /\ snoozes = 0
    /\ debugs = 0
    /\ acks = 0
    /\ buttons = {}
    /\ edits = 0
    /\ conv = IdleConv
    /\ fake = IdleFake

NextBacklog ==
    \/ Reconcile("sched")
    \/ DispatchStart
    \/ DispatchItem(TRUE)
    \/ DispatchCommit
    \/ Tick

\* create_scheduler: job "notify" fires every minute and a pass that has
\* started runs to its commit.
SpecBacklog ==
    /\ InitBacklog
    /\ [][NextBacklog]_vars
    /\ WF_vars(DispatchStart)
    /\ WF_vars(DispatchItem(TRUE))
    /\ WF_vars(DispatchCommit)

\* The backlog again, with a messaging identity for both accounts: every
\* reminder is delivered when its pass reaches it.
InitBatch ==
    /\ now = 0
    /\ tg_id = [u \in Users |-> 100 + u]
    /\ calendar = BacklogCalendar
    /\ meetings = {}
    /\ notifs = {}
    /\ rec = [r \in Runners |-> IdleRec]
    /\ disp = IdleDisp
    /\ credited = {}
    /\ synced = FALSE
    /\ ticks = 0
    /\ snoozes = 0
    /\ debugs = 0
    /\ acks = 0
    /\ buttons = {}
    /\ edits = 0
    /\ conv = IdleConv
    /\ fake = IdleFake

SpecBatch == InitBatch /\ [][NextBacklog]_vars

\* A Notification without a meeting: meeting_id is nullable (models.py) and
\* nothing in the program writes such a row; it is one another writer of
\* the table has left, pending and due from the start.
OrphanNotification ==
    [id |-> 1, user_id |-> 1, meeting_id |-> NULL, scheduled_at |-> 0,
     sent_at |-> NULL, status |-> "none"]

\* The backlog of SpecBatch, with that row in the table.
InitOrphan ==
    /\ now = 0
    /\ tg_id = [u \in Users |-> 100 + u]
    /\ calendar = BacklogCalendar
    /\ meetings = {}
    /\ notifs = {OrphanNotification}
    /\ rec = [r \in Runners |-> IdleRec]
    /\ disp = IdleDisp
    /\ credited = {}
    /\ synced = FALSE
    /\ ticks = 0
    /\ snoozes = 0
    /\ debugs = 0
    /\ acks = 0
    /\ buttons = {}
    /\ edits = 0
    /\ conv = IdleConv
    /\ fake = IdleFake

SpecOrphan == InitOrphan /\ [][NextBacklog]_vars

\* The program as deployed, where account 2 has no messaging identity.
InitNoTg ==
    /\ now = 0
    /\ tg_id = [u \in Users |-> IF u = 1 THEN 101 ELSE NULL]
    /\ calendar = InitialCalendar
    /\ meetings = {}
    /\ notifs = {}
    /\ rec = [r \in Runners |-> IdleRec]
    /\ disp = IdleDisp
    /\ credited = {}
    /\ synced = FALSE
    /\ ticks = 0
    /\ snoozes = 0
    /\ debugs = 0
    /\ acks = 0
    /\ buttons = {}
    /\ edits = 0
    /\ conv = IdleConv
    /\ fake = IdleFake

SpecNoTg == InitNoTg /\ [][Next]_vars

\* The reconcile job with a provider that may drop the end of an event.
NextNoEnd ==
    \/ Reconcile("sched")
    \/ \E u \in Users : CalendarDropEnd(u)
    \/ Tick

SpecNoEnd == InitSync /\ [][NextNoEnd]_vars

-----------------------------------------------------------------------------
(* Properties *)

Range(f) == {f[i] : i \in DOMAIN f}

NotifRow(rows, id) == CHOOSE n \in rows : n.id = id

\* Account u is reconciled: each event its calendar holds has a committed
\* meeting with the event's title and times.
Reconciled(u) ==
    \A i \in 1..Len(calendar[u]) :
        \E m \in meetings :
            /\ MeetingKeyMatch(m, u, calendar[u][i].id)
            /\ m.title = calendar[u][i].title
            /\ m.start_at = calendar[u][i].start_at
            /\ m.end_at = calendar[u][i].end_at
            /\ m.location = calendar[u][i].location
            /\ m.description = calendar[u][i].description

OneMeetingPerKey ==
    \A a \in meetings, b \in meetings :
        (a.user_id = b.user_id /\ a.external_id = b.external_id) => a = b

OneNotificationPerKey ==
    \A a \in notifs, b \in notifs :
        (a.meeting_id = b.meeting_id /\ a.scheduled_at = b.scheduled_at) => a = b

\* C1: once a reconcile run has committed, a further run over the same
\* provider output inserts no Meeting and no Notification and rewrites no
\* Meeting, and the store holds exactly one Meeting per (account,
\* external_id) of the calendars and no two Notifications with the same
\* (meeting_id, scheduled_at).
C1_ReconcileIdempotent ==
    synced =>
        /\ rec["sched"].newM = {}
        /\ rec["sched"].newN = {}
        /\ rec["sched"].updM = {}
        /\ rec["sched"].mIns = {} /\ rec["sched"].nIns = {} /\ rec["sched"].mUpd = {}
        /\ \A u \in Users : \A i \in 1..Len(calendar[u]) :
              Cardinality({m \in meetings : MeetingKeyMatch(m, u, calendar[u][i].id)}) = 1
        /\ OneMeetingPerKey
        /\ OneNotificationPerKey

\* A second run has gone through every account after a first one committed.
C1_Witness ==
    /\ synced
    /\ rec["sched"].pc = "users"
    /\ rec["sched"].todo = {}
    /\ meetings # {}
    /\ notifs # {}

\* C2: at most one Meeting per (account id, external_id), whatever the
\* interleaving of the scheduled run and a run started by POST /debug/sync.
C2_OneMeetingPerKey == OneMeetingPerKey

\* C3: at most one Notification per (meeting id, scheduled_at), after any
\* sequence of reconcile, dispatch, snooze and acknowledge.
C3_OneNotificationPerKey == OneNotificationPerKey

\* C4: when a run ended because the fetch failed for one account, every
\* other account is reconciled.
C4_FetchFailureIsolated ==
    \A r \in Runners :
        (rec[r].pc = "idle" /\ rec[r].outcome = "fetch") =>
            \A u \in Users \ {rec[r].user} : Reconciled(u)

\* C5: a pass that starts selects no notification whose sent_at has been
\* set and not cleared by a snooze since; and nothing gets sent_at without
\* being credited, nothing is credited without sent_at.
C5_SentNotReselected ==
    [][ /\ (disp.pc = "idle" /\ disp'.pc = "loop") =>
              Range(disp'.rows) \cap credited = {}
        /\ \A n \in notifs' : (n.id \in credited') <=> (n.sent_at # NULL)
      ]_vars

\* A pass runs while a due notification that was sent before stays out of it.
C5_Witness ==
    /\ disp.pc = "loop"
    /\ \E n \in notifs :
          /\ n.id \in credited
          /\ n.sent_at # NULL
          /\ n.scheduled_at <= disp.now
          /\ n.id \notin Range(disp.rows)

\* C6: a send that raises leaves the pass in its loop at the next row, with
\* the store untouched; at the commit every row of the batch whose account
\* has a messaging identity has been attempted, a row whose send raised
\* keeps its sent_at and scheduled_at, and a row whose send succeeded has
\* sent_at set to the time of the pass.
C6_FailureDoesNotStopPass ==
    [][ /\ (disp.pc = "loop" /\ disp'.failed \ disp.failed # {}) =>
              /\ disp'.pc = "loop"
              /\ disp'.i = disp.i + 1
              /\ disp'.rows = disp.rows
              /\ disp'.ok = disp.ok
              /\ notifs' = notifs
        /\ (disp.pc = "loop" /\ disp'.last = "commit") =>
              \A id \in Range(disp.rows) :
                  LET before == NotifRow(notifs, id)
                      after == NotifRow(notifs', id)
                  IN  /\ tg_id[before.user_id] # NULL => id \in disp.ok \cup disp.failed
                      /\ id \in disp.failed =>
                            /\ after.sent_at = before.sent_at
                            /\ after.scheduled_at = before.scheduled_at
                      /\ id \in disp.ok => after.sent_at = disp.now
      ]_vars

\* A pass at its end whose first send raised and whose second succeeded.
C6_Witness ==
    /\ disp.pc = "loop"
    /\ Len(disp.rows) = 2
    /\ disp.i = 3
    /\ disp.rows[1] \in disp.failed
    /\ disp.rows[2] \in disp.ok
    /\ NotifRow(notifs, disp.rows[1]).sent_at = NULL

\* C9: while a run is in the middle of an account nothing it has written
\* for that account is committed, and when it fails there the store stays
\* as it is: none of the rows it inserted for the account is committed,
\* every meeting of the account it changed keeps its committed value.
C9_FailedAccountNotCommitted ==
    [][ \A r \in Runners :
          rec[r].pc = "events" =>
              /\ IdsOf(rec[r].newM) \cap IdsOf(meetings') = {}
              /\ IdsOf(rec[r].newN) \cap IdsOf(notifs') = {}
              /\ \A u \in rec[r].updM : u.old \in meetings'
              /\ rec'[r].pc = "idle" => (meetings' = meetings /\ notifs' = notifs)
      ]_vars

\* A run has failed in the middle of an account, after the provider
\* committed the session at a token refresh: the rows it had inserted for
\* the account are not in the store, those of the account before are.
C9_Witness ==
    /\ rec["sched"].pc = "idle"
    /\ rec["sched"].outcome = "store"
    /\ rec["sched"].newM # {}
    /\ rec["sched"].newN # {}
    /\ ~synced
    /\ meetings # {}
    /\ IdsOf(rec["sched"].newM) \cap IdsOf(meetings) = {}
    /\ IdsOf(rec["sched"].newN) \cap IdsOf(notifs) = {}

\* C10: a pass that aborts leaves the store as it is; a pass that starts
\* selects every due pending row, up to the batch limit; and a step of the
\* dispatcher sets sent_at only of rows whose send succeeded in this pass.
C10_AtLeastOnce ==
    [][ /\ (disp.pc = "loop" /\ disp'.last = "abort") => notifs' = notifs
        /\ (disp.pc = "idle" /\ disp' # disp) =>
              \A n \in notifs :
                  Due(n, now) =>
                      \/ n.id \in Range(disp'.rows)
                      \/ Len(disp'.rows) = BatchLimit
        /\ disp' # disp =>
              \A n \in notifs :
                  NotifRow(notifs', n.id) # n =>
                      /\ n.id \in disp.ok
                      /\ n.id \notin disp.failed
                      /\ n.id \in buttons
                      /\ NotifRow(notifs', n.id) = [n EXCEPT !.sent_at = disp.now]
      ]_vars

\* A pass selects a reminder that a pass before delivered and did not
\* commit.
C10_Witness ==
    /\ disp.pc = "loop"
    /\ snoozes = 0
    /\ acks = 0
    /\ \E id \in Range(disp.rows) :
          /\ id \in buttons
          /\ id \notin credited
          /\ NotifRow(notifs, id).sent_at = NULL

\* C8: at most one reconcile run is in progress.
C8_OneReconcileAtATime ==
    Cardinality({r \in Runners : rec[r].pc # "idle"}) <= 1

\* C7: in the backlog, where account 1 is the account with a messaging
\* identity and every send succeeds, a due pending notification of account 1
\* is eventually marked sent.
C7_DeliverableEventuallySent ==
    (tg_id[1] # NULL /\ \E n \in notifs : n.user_id = 1 /\ Due(n, now))
        ~> (\E n \in notifs : n.user_id = 1 /\ n.sent_at # NULL)

\* C11: a snooze adds its minutes to scheduled_at and clears sent_at; a
\* pass that starts selects only rows whose scheduled_at is at or before its
\* now, and every pending one of them up to the batch limit; and no pass
\* sends or marks sent a row whose scheduled_at is after the pass's now.
C11_SnoozeReschedules ==
    [][ /\ snoozes' # snoozes =>
              \A n \in notifs :
                  LET after == NotifRow(notifs', n.id)
                  IN  after # n =>
                        /\ after.scheduled_at = n.scheduled_at + SnoozeButtonMinutes
                        /\ after.sent_at = NULL
        /\ (disp.pc = "idle" /\ disp' # disp) =>
              /\ \A id \in Range(disp'.rows) : NotifRow(notifs, id).scheduled_at <= now
              /\ \A n \in notifs :
                    Due(n, now) =>
                        n.id \in Range(disp'.rows) \/ Len(disp'.rows) = BatchLimit
        /\ (disp.pc = "loop" /\ disp' # disp) =>
              /\ \A id \in disp'.ok \ disp.ok :
                    NotifRow(notifs, id).scheduled_at <= disp.now
              /\ disp'.last = "commit" =>
                    \A id \in disp.ok : NotifRow(notifs, id).scheduled_at <= disp.now
      ]_vars

C14_NoPastReminder ==
    [][ /\ \A r \in Runners :
              \A n \in rec'[r].nIns \ rec[r].nIns : n.scheduled_at > now
        /\ \A n \in notifs' :
              n.id \notin IdsOf(notifs) => \E r \in Runners : n \in rec[r].nIns
      ]_vars

\* A run has committed a meeting that starts less than a day ahead: it has
\* its hour-before reminder and no day-before one.
C14_Witness ==
    /\ rec["sched"].outcome = "commit"
    /\ \E m \in meetings :
          /\ m.start_at - DayOffset <= 0
          /\ ~ \E n \in notifs : NotificationKeyMatch(n, m.id, m.start_at - DayOffset)
          /\ \E n \in notifs : NotificationKeyMatch(n, m.id, m.start_at - HourOffset)

\* C15: when a run commits at its end, every event of the calendars has,
\* for each offset whose fire time is after the clock, a committed
\* Notification for (its meeting, start minus offset), and the rows the run
\* holds are committed pending.
C15_RemindersEnsured ==
    [][ (rec["sched"].pc = "users" /\ rec'["sched"].outcome = "commit"
         /\ rec'["sched"].pc = "idle") =>
            /\ \A u \in Users : \A i \in 1..Len(calendar[u]) :
                  \A off \in {DayOffset, HourOffset} :
                      calendar[u][i].start_at - off > now =>
                          \E m \in meetings' :
                              /\ MeetingKeyMatch(m, u, calendar[u][i].id)
                              /\ \E n \in notifs' :
                                    NotificationKeyMatch(n, m.id, calendar[u][i].start_at - off)
            /\ \A n \in rec["sched"].nIns : n \in notifs' /\ n.sent_at = NULL
      ]_vars

\* The first run has committed: a meeting more than a day ahead has both
\* its reminders, pending.
C15_Witness ==
    /\ rec["sched"].outcome = "commit"
    /\ ticks = 0
    /\ \E m \in meetings : \E a \in notifs, b \in notifs :
          /\ NotificationKeyMatch(a, m.id, m.start_at - DayOffset)
          /\ NotificationKeyMatch(b, m.id, m.start_at - HourOffset)
          /\ a.sent_at = NULL
          /\ b.sent_at = NULL

\* C13: the rows of a pass are in ascending order of scheduled_at, the pass
\* goes through them from the first to the last, one per turn, and what it
\* has sent is always a prefix of them.
C13_AscendingOrder ==
    [][ /\ (disp.pc = "idle" /\ disp'.pc = "loop") =>
              \A i \in 1..Len(disp'.rows) : \A j \in 1..Len(disp'.rows) :
                  i < j => NotifRow(notifs, disp'.rows[i]).scheduled_at
                              <= NotifRow(notifs, disp'.rows[j]).scheduled_at
        /\ (disp.pc = "loop" /\ disp'.pc = "loop" /\ disp' # disp) =>
              /\ disp'.rows = disp.rows
              /\ disp'.i = disp.i + 1
              /\ disp'.ok \ disp.ok \subseteq {disp.rows[disp.i]}
              /\ \A id \in disp.ok : \E k \in 1..(disp.i - 1) : disp.rows[k] = id
      ]_vars

\* A pass has sent its first three rows, of three different fire times, and
\* has more to send.
C13_Witness ==
    /\ disp.pc = "loop"
    /\ disp.i = 4
    /\ Len(disp.rows) > 3
    /\ disp.ok = {disp.rows[1], disp.rows[2], disp.rows[3]}
    /\ NotifRow(notifs, disp.rows[1]).scheduled_at < NotifRow(notifs, disp.rows[2]).scheduled_at
    /\ NotifRow(notifs, disp.rows[2]).scheduled_at < NotifRow(notifs, disp.rows[3]).scheduled_at

\* C16: a pass sends a row only while its scheduled_at is at or before the
\* pass's now and its sent_at is null, and its commit leaves every pending
\* row with a later scheduled_at as it is.
C16_OnlyDuePendingSent ==
    [][ (disp.pc = "loop" /\ disp' # disp) =>
            /\ \A id \in disp'.ok \ disp.ok :
                  /\ NotifRow(notifs, id).scheduled_at <= disp.now
                  /\ NotifRow(notifs, id).sent_at = NULL
            /\ disp'.last = "commit" =>
                  \A n \in notifs :
                      (n.sent_at = NULL /\ n.scheduled_at > disp.now) =>
                          NotifRow(notifs', n.id) = n
      ]_vars

\* C17: a pass holds at most BatchLimit rows, sends only rows it holds, and
\* its commit changes at most BatchLimit rows.
C17_BatchLimit ==
    [][ /\ Len(disp'.rows) <= BatchLimit
        /\ disp'.ok \subseteq Range(disp'.rows)
        /\ Cardinality(disp'.ok) <= BatchLimit
        /\ Cardinality(buttons' \ buttons) <= 1
        /\ disp' # disp =>
              Cardinality({n \in notifs : NotifRow(notifs', n.id) # n}) <= BatchLimit
      ]_vars

\* A pass has delivered BatchLimit reminders while more rows than that were
\* due and pending.
C17_Witness ==
    /\ disp.pc = "loop"
    /\ Cardinality(disp.ok) = BatchLimit
    /\ disp.ok \subseteq buttons
    /\ Cardinality({n \in notifs : Due(n, disp.now)}) > BatchLimit

\* C18: at a row whose account has no messaging identity the pass moves to
\* the next row and nothing else changes (no send, no mark, no error); at the
\* commit such a row is as it was, pending, and every other row of the batch
\* has been attempted.
C18_NoIdentitySkipped ==
    [][ (disp.pc = "loop" /\ disp' # disp) =>
            /\ (disp'.last # "abort" /\ disp.i <= Len(disp.rows)
                /\ tg_id[NotifRow(notifs, disp.rows[disp.i]).user_id] = NULL) =>
                  /\ disp' = [disp EXCEPT !.i = @ + 1]
                  /\ buttons' = buttons
                  /\ notifs' = notifs
            /\ disp'.last = "commit" =>
                  \A id \in Range(disp.rows) :
                      IF tg_id[NotifRow(notifs, id).user_id] = NULL
                      THEN /\ id \notin disp.ok \cup disp.failed
                           /\ id \notin buttons
                           /\ NotifRow(notifs', id) = NotifRow(notifs, id)
                           /\ NotifRow(notifs', id).sent_at = NULL
                      ELSE id \in disp.ok \cup disp.failed
      ]_vars

\* A pass at its end: its first row, of an account without a messaging
\* identity, was passed over and its second was sent.
C18_Witness ==
    /\ disp.pc = "loop"
    /\ Len(disp.rows) = 2
    /\ disp.i = 3
    /\ tg_id[NotifRow(notifs, disp.rows[1]).user_id] = NULL
    /\ disp.rows[1] \notin disp.ok \cup disp.failed
    /\ disp.rows[2] \in disp.ok

\* C19: after the turn of an event the session holds exactly one Meeting for
\* (account, external_id), with the event's title, start, end, location and
\* description; the commit at the end of the run stores what the session
\* holds; and when the calendars have not changed every event has its
\* stored Meeting after that commit.
C19_MeetingMatchesEvent ==
    [][ /\ (rec["sched"].pc = "events" /\ rec'["sched"] # rec["sched"]
            /\ rec'["sched"].pc # "idle") =>
              LET e == Head(rec["sched"].events)
                  found == {m \in VisibleMeetings(rec'["sched"]) :
                               MeetingKeyMatch(m, rec["sched"].user, e.id)}
              IN  /\ Cardinality(found) = 1
                  /\ \A m \in found :
                        /\ m.title = e.title
                        /\ m.start_at = e.start_at
                        /\ m.end_at = e.end_at
                        /\ m.location = e.location
                        /\ m.description = e.description
        /\ (rec["sched"].pc = "users" /\ rec["sched"].todo = {}
            /\ rec'["sched"].pc = "idle") =>
              /\ meetings' = VisibleMeetings(rec["sched"])
              /\ edits = 0 => \A u \in Users : Reconciled(u)'
      ]_vars

\* A run has committed after an event was moved: the Meeting made before the
\* move (it has a reminder of the former start) holds the new place and
\* times, and every event has its stored Meeting.
C19_Witness ==
    /\ rec["sched"].outcome = "commit"
    /\ edits = 1
    /\ \A u \in Users : Reconciled(u)
    /\ \E m \in meetings :
          /\ m.location = "hall"
          /\ \E n \in notifs :
                NotificationKeyMatch(n, m.id, m.start_at - TickMinutes - DayOffset)

\* C20: no run ends because an item has no end time, and the turn of an
\* event without an end stores a Meeting with a null end.
C20_NullEndTolerated ==
    [][ /\ rec'["sched"] # rec["sched"] => rec'["sched"].outcome # "parse"
        /\ (rec["sched"].pc = "events" /\ rec'["sched"] # rec["sched"]
            /\ Head(rec["sched"].events).end_at = NULL) =>
              \E m \in VisibleMeetings(rec'["sched"]) :
                  /\ MeetingKeyMatch(m, rec["sched"].user, Head(rec["sched"].events).id)
                  /\ m.end_at = NULL
      ]_vars

-----------------------------------------------------------------------------
(* Drafts *)

\* The Meeting rows of an event on_confirm_meeting has created.
RowsOfCreated(rows, c) ==
    {m \in rows : m.user_id = c.user /\ m.external_id = c.id}

\* The final commit of the scheduled run.
FinalCommitStep ==
    /\ rec["sched"].pc = "users"
    /\ rec["sched"].todo = {}
    /\ rec'["sched"].outcome = "commit"

\* The sync window of the scheduled run overlaps the event.
InRunWindow(e) ==
    InWindow(e, rec["sched"].runNow - LookbackDays * DayOffset,
                rec["sched"].runNow + WindowDays * DayOffset)

C22_DraftsWellFormed ==
    \A d \in conv.drafts :
        /\ d.start_utc # NULL
        /\ d.duration_min \in {15, 30, 45, 60}

-----------------------------------------------------------------------------
(* The two jobs *)

FailedOutcomes == {"fetch", "parse", "query", "store"}

\* The scheduled sync run ends with an error in this step.
ReconcileFails ==
    /\ rec["sched"].pc \notin {"idle", "dead"}
    /\ rec'["sched"].pc \notin {"users", "events"}
    /\ rec'["sched"].outcome \in FailedOutcomes

\* The dispatch pass ends without its commit in this step.
DispatchFails == disp.pc = "loop" /\ disp'.last = "abort"

\* C23: a sync run that ends with an error leaves the dispatch job as it is
\* and the sync job ready to be fired again, and a dispatch pass that fails
\* leaves the sync job as it is and the dispatch job ready to be fired
\* again: whenever a job is not running, whatever the outcome of its run
\* or of the other job's run before, its next firing starts a run.
C23_IndependentFailureDomains ==
    /\ [][ (ReconcileFails => (disp' = disp /\ rec'["sched"].pc = "idle"))
            /\ (DispatchFails => (rec' = rec /\ disp'.pc = "idle")) ]_vars
    /\ [](((rec["sched"].outcome \in FailedOutcomes \/ disp.last = "abort") =>
               (rec["sched"].pc \in {"idle", "users", "events"}
                    /\ disp.pc \in {"idle", "loop"}))
           /\ (rec["sched"].pc = "idle" => ENABLED RecStart("sched"))
           /\ (disp.pc = "idle" => ENABLED DispatchStart))

\* A sync run has failed, a dispatch pass has failed, and both jobs can be
\* fired again.
C23_Witness ==
    /\ rec["sched"].outcome = "fetch"
    /\ disp.last = "abort"
    /\ ENABLED RecStart("sched")
    /\ ENABLED DispatchStart

-----------------------------------------------------------------------------
(* The fake provider *)

\* The window of the repository's test: from a clock reading taken less
\* than a second before the call to ten hours later.
TestWindow ==
    /\ fake.time_min <= fake.clock
    /\ fake.clock - fake.time_min < SubSecond
    /\ fake.time_max = fake.time_min + TestWindowHours * FakeHour

-----------------------------------------------------------------------------
(* Snooze during a pass *)

\* C25: a snooze that commits after a pass sent the notification and before
\* the pass commits is kept: it sets scheduled_at to the old value plus the
\* minutes and sent_at to null, and the commit of the pass leaves the row,
\* now due later than the pass's now, as the snooze wrote it.
C25_SnoozeInFlightKept ==
    [][ /\ (snoozes' # snoozes /\ disp.pc = "loop") =>
              \A id \in disp.ok :
                  LET n == NotifRow(notifs, id)
                      after == NotifRow(notifs', id)
                  IN  after # n =>
                        /\ after.scheduled_at = n.scheduled_at + SnoozeButtonMinutes
                        /\ after.sent_at = NULL
        /\ (disp.pc = "loop" /\ disp'.last = "commit") =>
              \A id \in disp.ok :
                  LET n == NotifRow(notifs, id)
                  IN  (n.sent_at = NULL /\ n.scheduled_at > disp.now) =>
                        /\ NotifRow(notifs', id).scheduled_at = n.scheduled_at
                        /\ NotifRow(notifs', id).sent_at = NULL
      ]_vars

-----------------------------------------------------------------------------
(* What each job writes *)

\* C26: a step of the sync run leaves every Notification row there is as it
\* is (scheduled_at, sent_at and status included) and deletes none; the rows
\* it adds are new, pending rows.  This holds with a dispatch pass in
\* progress, so a sent notification stays sent.
C26_ReconcileOnlyInserts ==
    [][ rec' # rec =>
            /\ \A n \in notifs : n \in notifs'
            /\ \A n \in notifs' \ notifs :
                  /\ n.id \notin IdsOf(notifs)
                  /\ n.sent_at = NULL
                  /\ n.status = "none"
      ]_vars

\* A sync run is about to commit a reminder it inserted while a reminder
\* has been sent and a dispatch pass is in progress.
C26_Witness ==
    /\ rec["sched"].pc = "users"
    /\ rec["sched"].todo = {}
    /\ rec["sched"].nIns # {}
    /\ disp.pc = "loop"
    /\ \E n \in notifs : n.sent_at # NULL

\* C27: a step of the dispatch pass leaves the meetings, the calendars and
\* the set of Notification rows as they are; it changes a row only by
\* setting sent_at to the pass's now, and only for a row whose send
\* succeeded in this pass.  A pass that finds nothing due ends at once,
\* without a change and without a message.
C27_DispatchOnlyMarksSent ==
    [][ disp' # disp =>
            /\ meetings' = meetings
            /\ calendar' = calendar
            /\ IdsOf(notifs') = IdsOf(notifs)
            /\ Cardinality(notifs') = Cardinality(notifs)
            /\ \A n \in notifs :
                  \/ n \in notifs'
                  \/ /\ n.id \in disp.ok
                     /\ [n EXCEPT !.sent_at = disp.now] \in notifs'
            /\ (/\ disp.pc = "idle"
                /\ ~\E n \in notifs :
                      /\ n.scheduled_at <= now
                      /\ n.sent_at = NULL
                      /\ \E m \in meetings : m.id = n.meeting_id)
               => (disp'.pc = "idle" /\ notifs' = notifs /\ buttons' = buttons)
      ]_vars

\* A pass has committed what it sent, and a later pass found nothing due.
C27_Witness ==
    /\ acks = 0
    /\ snoozes = 0
    /\ credited # {}
    /\ \E n \in notifs : n.sent_at # NULL /\ n.id \in credited
    /\ disp.last = "empty"

-----------------------------------------------------------------------------
(* Events that move or disappear *)

\* The event of a meeting, as the provider holds it now (none: empty set).
EventsOf(m) ==
    {calendar[m.user_id][k] : k \in {j \in 1..Len(calendar[m.user_id]) :
                                        calendar[m.user_id][j].id = m.external_id}}

\* The pending reminders with a meeting whose fire time has come.
PendingDue ==
    {n \in notifs : /\ n.scheduled_at <= now
                    /\ n.sent_at = NULL
                    /\ \E m \in meetings : m.id = n.meeting_id}

\* A pass starts in this step and takes every reminder of PendingDue, up
\* to the batch limit, each with the start of its meeting as committed.
PassTakesPendingDue ==
    (disp.pc = "idle" /\ disp' # disp) =>
        /\ \A n \in PendingDue :
              n.id \in Range(disp'.rows) \/ Len(disp'.rows) = BatchLimit
        /\ \A k \in 1..Len(disp'.rows) :
              \E m \in meetings :
                  /\ m.id = NotifRow(notifs, disp'.rows[k]).meeting_id
                  /\ disp'.starts[k] = m.start_at

\* C28: when the sync run meets an event whose start differs from the
\* Meeting row, the row gets the new start (at the run's commit) and the
\* reminders of the new start that lie ahead are there; no step of the run
\* changes or removes a reminder, so those of the old start remain; a pass
\* takes every pending reminder whose fire time has come, an old one
\* included, and its message shows the start the Meeting row has then.
C28_MovedEventKeepsOldReminders ==
    [][ /\ (/\ rec["sched"].pc = "events"
            /\ rec' # rec
            /\ rec'["sched"].pc \in {"events", "users"}) =>
              LET e == Head(rec["sched"].events)
                  s == rec'["sched"]
              IN  \A m \in VisibleMeetings(s) :
                      (m.user_id = rec["sched"].user /\ m.external_id = e.id) =>
                          /\ m.start_at = e.start_at
                          /\ \A at \in {e.start_at - DayOffset, e.start_at - HourOffset} :
                                at > now =>
                                    \E n \in notifs \cup s.nIns :
                                        n.meeting_id = m.id /\ n.scheduled_at = at
        /\ rec' # rec =>
              /\ \A n \in notifs : n \in notifs'
              /\ \A u \in rec["sched"].mUpd :
                    meetings' # meetings =>
                        \E m \in meetings' :
                            m.id = u.old.id /\ m.start_at = u.new.start_at
        /\ PassTakesPendingDue
      ]_vars

\* A pass has sent a reminder of the old start of a meeting that was moved:
\* the message shows the new start, and a reminder of the new start waits.
C28_Witness ==
    /\ disp.pc = "loop"
    /\ \E k \in 1..Len(disp.rows) :
          LET n == NotifRow(notifs, disp.rows[k])
          IN  /\ n.id \in disp.ok
              /\ \E m \in meetings :
                    /\ m.id = n.meeting_id
                    /\ \E e \in EventsOf(m) : e.start_at = m.start_at
                    /\ n.scheduled_at \notin {m.start_at - DayOffset, m.start_at - HourOffset}
                    /\ n.scheduled_at <= disp.now
                    /\ disp.starts[k] = m.start_at
                    /\ \E n2 \in notifs :
                          /\ n2.meeting_id = m.id
                          /\ n2.scheduled_at = m.start_at - HourOffset
                          /\ n2.sent_at = NULL

\* C29: no step of the sync run deletes a Meeting row; a row whose event the
\* provider holds no more, and which the run has not changed, stays as it
\* is, and so does every reminder; a pass takes the pending reminders whose
\* fire time has come whether the provider still holds the event or not.
C29_VanishedEventKeepsMeeting ==
    [][ /\ rec' # rec =>
              /\ IdsOf(meetings) \subseteq IdsOf(meetings')
              /\ \A m \in meetings :
                    (EventsOf(m) = {} /\ ~\E u \in rec["sched"].mUpd : u.old.id = m.id)
                        => m \in meetings'
              /\ \A n \in notifs : n \in notifs'
        /\ (disp.pc = "idle" /\ disp' # disp) =>
              \A n \in PendingDue :
                  n.id \in Range(disp'.rows) \/ Len(disp'.rows) = BatchLimit
      ]_vars

\* The provider has returned nothing for account 1 to a run that is about
\* to commit, the Meeting of the deleted event is there, and a pass that
\* started no earlier than the run has sent its reminder.
C29_Witness ==
    /\ calendar[1] = <<>>
    /\ rec["sched"].pc = "users"
    /\ rec["sched"].todo = {}
    /\ rec["sched"].seen = Len(calendar[2])
    /\ disp.pc = "loop"
    /\ disp.now >= rec["sched"].runNow
    /\ \E m \in meetings :
          /\ m.user_id = 1
          /\ EventsOf(m) = {}
          /\ \E n \in notifs : n.meeting_id = m.id /\ n.id \in disp.ok

-----------------------------------------------------------------------------
(* Notifications without a meeting *)

\* C30: a pass never holds a notification whose meeting_id is null, sends
\* none and leaves each as it is; such rows take no place in the batch (the
\* pass holds the pending due reminders with a meeting, all of them or
\* BatchLimit of them) and the pass goes on to send and commit the others.
C30_NoMeetingNeverSelected ==
    [][ disp' # disp =>
            /\ \A id \in Range(disp'.rows) : NotifRow(notifs, id).meeting_id # NULL
            /\ \A n \in notifs : n.meeting_id = NULL => n \in notifs'
            /\ \A id \in buttons' \ buttons : NotifRow(notifs, id).meeting_id # NULL
            /\ disp.pc = "idle" =>
                  /\ Len(disp'.rows) =
                        IF Cardinality(PendingDue) < BatchLimit
                        THEN Cardinality(PendingDue) ELSE BatchLimit
                  /\ Range(disp'.rows) \subseteq IdsOf(PendingDue)
                  /\ PendingDue # {} => disp'.pc = "loop"
            /\ disp'.last \notin {"abort"}
      ]_vars

\* A pending, due notification without a meeting lies in the table while a
\* pass holds a full batch of reminders, has sent some and holds it not.
C30_Witness ==
    /\ disp.pc = "loop"
    /\ Len(disp.rows) = BatchLimit
    /\ disp.ok # {}
    /\ \E n \in notifs :
          /\ n.meeting_id = NULL
          /\ n.sent_at = NULL
          /\ n.scheduled_at <= disp.now
          /\ n.id \notin Range(disp.rows)

-----------------------------------------------------------------------------
(* Confirming a draft *)

\* C31: a token leads to at most one event in the provider's calendar and
\* is never both in the cache and being confirmed; a confirm of a token
\* whose draft is there takes the draft out of the cache before anything
\* else, a confirm of a token without a draft answers that there is nothing
\* to confirm and changes nothing else, and the rest of a confirm, whether
\* it creates the event or fails (no account, provider error), does not
\* put the draft back.
C31_TokenConsumedOnce ==
    [][ /\ \A t \in 1..conv'.made :
              /\ Cardinality({c \in conv'.created : c.tok = t}) <= 1
              /\ Cardinality({c \in conv'.inflight : c.draft.tok = t})
                    + Cardinality({c \in conv'.created : c.tok = t})
                    + Cardinality({d \in conv'.drafts : d.tok = t}) <= 1
        /\ (conv'.reply # conv.reply /\ conv'.reply.handler = "on_confirm_meeting") =>
              LET t == conv'.reply.tok
              IN  /\ \A d \in conv'.drafts : d.tok # t
                  /\ conv'.reply.text = "popped" =>
                        (calendar' = calendar /\ \E d \in conv.drafts : d.tok = t)
                  /\ conv'.reply.text = "nothing to confirm" =>
                        /\ \A d \in conv.drafts : d.tok # t
                        /\ conv'.drafts = conv.drafts
                        /\ conv'.inflight = conv.inflight
                        /\ calendar' = calendar
                  /\ conv'.reply.text \in {"not linked", "provider error"} =>
                        /\ conv'.drafts = conv.drafts
                        /\ conv'.created = conv.created
                        /\ calendar' = calendar
                  /\ conv'.reply.text = "created" =>
                        /\ conv'.drafts = conv.drafts
                        /\ Len(calendar'[1]) + Len(calendar'[2])
                              = Len(calendar[1]) + Len(calendar[2]) + 1
                  /\ conv'.reply.text \in {"popped", "nothing to confirm", "not linked",
                                           "provider error", "created"}
        /\ (\E d \in conv.drafts : \A x \in conv'.drafts : x.tok # d.tok) =>
              conv'.reply.handler \in {"on_confirm_meeting", "on_cancel_meeting"}
      ]_vars

\* A second confirm of a token was answered "nothing to confirm" while the
\* first, which had popped the draft, was still on its way to the provider.
C31_Witness ==
    /\ conv.reply.handler = "on_confirm_meeting"
    /\ conv.reply.text = "nothing to confirm"
    /\ \E c \in conv.inflight : c.draft.tok = conv.reply.tok
    /\ conv.drafts = {}

-----------------------------------------------------------------------------
(* Cancelling drafts *)

\* C32: a cancel with the token "all" leaves no draft in the cache, whoever
\* made the drafts; a cancel with the token of a draft takes that draft out
\* and leaves every other draft as it is.  Nothing else changes.
C32_CancelAllClearsStore ==
    [][ (conv' # conv /\ conv'.reply.handler = "on_cancel_meeting") =>
            /\ conv'.reply.tok = AllToken => conv'.drafts = {}
            /\ conv'.reply.tok # AllToken =>
                  /\ \A d \in conv.drafts : d.tok # conv'.reply.tok => d \in conv'.drafts
                  /\ \A d \in conv'.drafts : d \in conv.drafts /\ d.tok # conv'.reply.tok
            /\ conv'.ctx = conv.ctx
            /\ conv'.created = conv.created
            /\ calendar' = calendar
      ]_vars

\* The user without an account has cancelled "all": the cache held a draft
\* of the other user, and is empty.
C32_Witness ==
    /\ conv.reply.handler = "on_cancel_meeting"
    /\ conv.reply.tok = AllToken
    /\ conv.reply.who # LinkedChatter
    /\ \E d \in conv.before : d.tg_user_id = LinkedChatter
    /\ conv.drafts = {}

-----------------------------------------------------------------------------
(* Editing drafts *)

\* C33: a single-field edit that is rejected (the user is told what to type)
\* leaves every draft as it was and keeps the edit context of the user.
C33_RejectedEditChangesNothing ==
    [][ (/\ conv' # conv
         /\ conv'.reply # conv.reply
         /\ conv'.reply.handler = "on_edit_text"
         /\ conv'.reply.text = "rejected") =>
            /\ conv'.drafts = conv.drafts
            /\ conv'.ctx = conv.ctx
      ]_vars

\* C34: in every draft of the cache start_utc is the UTC instant of
\* start_local and end_utc is start_utc plus duration_min minutes.
C34_DerivedFieldsConsistent ==
    \A d \in conv.drafts :
        /\ d.start_utc = ToUtc(d.start_local)
        /\ d.end_utc = d.start_utc + d.duration_min

\* C36: a message "title | date time | minutes" from a user whose edit
\* context names a draft of the cache sets start_local, duration_min,
\* start_utc and end_utc of that draft from the message, and the user is
\* offered the confirm action.
C36_PipeMessageUpdatesDraft ==
    [][ (/\ conv' # conv
         /\ conv'.reply.handler = "on_edit_submit"
         /\ \E d \in conv.drafts : d.tok = conv'.reply.tok) =>
            /\ conv'.reply.text = "confirm offered"
            /\ \E msg \in PipeMessages : \E d \in conv'.drafts :
                  /\ d.tok = conv'.reply.tok
                  /\ d.start_local = msg.start
                  /\ d.duration_min = msg.minutes
                  /\ d.start_utc = ToUtc(msg.start)
                  /\ d.end_utc = ToUtc(msg.start + msg.minutes)
      ]_vars

-----------------------------------------------------------------------------
(* Refused callbacks *)

\* C35: a snooze or an acknowledge whose parameters are malformed, or whose
\* id matches no Notification, is answered with an error, and no
\* Notification row changes.
C35_RefusedCallbackReportsError ==
    [][ (/\ conv'.reply # conv.reply
         /\ conv'.reply.handler \in {"on_snooze", "on_ack"}) =>
            /\ conv'.reply.text \in {"bad parameters", "not found"}
            /\ notifs' = notifs
      ]_vars

====
